---- MODULE Spec2Model ----
(***************************************************************************)
(* Void-and-cluster generation of a 3D dither array (void-cluster-3d.cpp). *)
(*                                                                         *)
(* Representation.  Floats are modelled in exact fixed point:              *)
(*   - energies (Matrix3D weights) and kernel weights are integers in      *)
(*     units of 1/FixedOne, so the kernel centre exp(0) = 1.0f is FixedOne;*)
(*   - content values (Matrix3D _mat3D) are integers in units of 1/size,   *)
(*     so the rank (float)count/size is the integer count and the sentinel *)
(*     1.0f used by initial_bitmap and reorder_bitmap is size;             *)
(*   - a std::set<std::pair<float,int>> is the strictly increasing         *)
(*     sequence of its elements (the order its iterators visit them in).   *)
(* Rounding of float additions is not modelled.                            *)
(***************************************************************************)
EXTENDS Integers, Sequences, FiniteSets, TLC

VARIABLES
    dims,                     \* <<_d0, _d1, _d2>> of mat3d
    _mat3D,                   \* content of mat3d, by flat index
    weights,                  \* energy of every voxel, by flat index
    _track_void,              \* std::set of <<energy, idx>>
    _track_cluster,           \* std::set of <<energy, idx>>
    _cluster_tracking_is_on,
    jitter,                   \* what small_randomization() wrote (history)
    INITIAL_COUNT,            \* the count main() passes to both phases
    pc,                       \* position of main() between engine operations
    count,                    \* the local count of the running phase function
    t_max,                    \* local of reorder_bitmap / rank_initial_bitmap
    t_min,                    \* local of reorder_bitmap / phase_2_and_3
    last,                     \* the last engine operation completed
    iterations,               \* iterations of reorder_bitmap's loop completed (history)
    calls,                    \* number of engine calls made by a free caller
    before                    \* the energies when a caller's last toggle began (history)

vars == <<dims, _mat3D, weights, _track_void, _track_cluster,
          _cluster_tracking_is_on, jitter, INITIAL_COUNT, pc, count,
          t_max, t_min, last, iterations, calls, before>>

----------------------------------------------------------------------------
(* Bounds of the model *)

MaxDim == 3
MaxVoxels == 4
FilterRadius == 1
JitterMax == 1
MaxCalls == 3
MaxExcess == 1
MaxCoord == 4

----------------------------------------------------------------------------
(* Parameters *)

FixedOne == 1000
SigmaDecay == 775
FILTER_SIZE == 2 * FilterRadius + 1

----------------------------------------------------------------------------
(* Coordinates and Matrix3D addressing *)

\* C++ operator % on ints: the remainder has the sign of the dividend
CRem(a, d) == IF a >= 0 THEN a % d ELSE -((-a) % d)

\* (variant: the remainder of operator % alone, negative for negative a)
mod_truncating(a, d) == CRem(a, d)

\* (variant: a component outside the lattice is clamped to the nearest edge)
mod_clamped(a, d) == IF a < 0 THEN 0 ELSE IF a >= d THEN d - 1 ELSE a

mod(a, d) == CRem(CRem(a, d) + d, d)

T3Plus(a, b) == <<a[1] + b[1], a[2] + b[2], a[3] + b[3]>>

T3Minus(a, b) == <<a[1] - b[1], a[2] - b[2], a[3] - b[3]>>

size(dm) == dm[1] * dm[2] * dm[3]

T3_to_idx(dm, t3) ==
    LET i0 == mod(t3[1], dm[1])
        i1 == mod(t3[2], dm[2])
        i2 == mod(t3[3], dm[3])
    IN  i0 + i1 * dm[1] + i2 * (dm[1] * dm[2])

idx_to_T3(dm, idx) ==
    <<CRem(idx, dm[1]), CRem(idx, dm[1] * dm[2]) \div dm[1], idx \div (dm[1] * dm[2])>>

----------------------------------------------------------------------------
(* Kernel *)

dist2(i0, i1, i2) == i0 * i0 + i1 * i1 + i2 * i2

\* exp(-k * inv_sigma2) in fixed point: exp(-inv_sigma2) = SigmaDecay / FixedOne
RECURSIVE ExpNeg(_)
ExpNeg(k) == IF k = 0 THEN FixedOne ELSE (ExpNeg(k - 1) * SigmaDecay) \div FixedOne

GaussianMatrix(sz) ==
    LET g == <<sz, sz, sz>>
        center0 == sz \div 2
        center1 == sz \div 2
        center2 == sz \div 2
    IN  [k \in 0..(size(g) - 1) |->
            LET i == idx_to_T3(g, k)
            IN  ExpNeg(dist2(i[1] - center0, i[2] - center1, i[3] - center2))]

filterDims == <<FILTER_SIZE, FILTER_SIZE, FILTER_SIZE>>

filter == GaussianMatrix(FILTER_SIZE)

filter_get(g) == filter[T3_to_idx(filterDims, g)]

----------------------------------------------------------------------------
(* std::set<std::pair<float,int>> *)

\* (variant: equal energies ordered by descending flat index)
PairLess_ties_descending(p, q) == p[1] < q[1] \/ (p[1] = q[1] /\ p[2] > q[2])

PairLess(p, q) == p[1] < q[1] \/ (p[1] = q[1] /\ p[2] < q[2])

set_count(s, p) == IF \E i \in 1..Len(s) : s[i] = p THEN 1 ELSE 0

set_insert(s, p) ==
    IF set_count(s, p) = 1 THEN s
    ELSE LET k == Cardinality({i \in 1..Len(s) : PairLess(s[i], p)})
         IN  SubSeq(s, 1, k) \o <<p>> \o SubSeq(s, k + 1, Len(s))

set_erase(s, p) == SelectSeq(s, LAMBDA q : q # p)

set_cbegin(s) == s[1]

set_crbegin(s) == s[Len(s)]

----------------------------------------------------------------------------
(* Matrix3D_w_void_and_cluster_tracking, as a value *)

Coords(dm) == {<<i0, i1, i2>> : i0 \in 0..(dm[1] - 1), i1 \in 0..(dm[2] - 1), i2 \in 0..(dm[3] - 1)}

\* the object mat3d in its current state; exc is the exception in flight
Mat ==
    [d |-> dims, mat |-> _mat3D, weights |-> weights,
     track_void |-> _track_void, track_cluster |-> _track_cluster,
     tracking_on |-> _cluster_tracking_is_on, exc |-> "none"]

\* (variant: the voxel's cluster entry is left in place)
add_to_void_cluster_kept(m, t3) ==
    LET idx == T3_to_idx(m.d, t3)
        key == <<m.weights[idx], idx>>
    IN  [m EXCEPT !.track_void = set_insert(@, key)]

add_to_void(m, t3) ==
    LET idx == T3_to_idx(m.d, t3)
        key == <<m.weights[idx], idx>>
    IN  [m EXCEPT !.track_cluster = set_erase(@, key),
                  !.track_void = set_insert(@, key)]

\* (variant: the entry is inserted whether or not cluster tracking is on)
add_to_cluster_untested(m, t3) ==
    LET idx == T3_to_idx(m.d, t3)
        key == <<m.weights[idx], idx>>
        was_tracked == set_count(m.track_void, key)
    IN  [m EXCEPT !.track_void = set_erase(@, key),
                  !.track_cluster = IF was_tracked = 1
                                    THEN set_insert(@, key) ELSE @]

add_to_cluster(m, t3) ==
    LET idx == T3_to_idx(m.d, t3)
        key == <<m.weights[idx], idx>>
        was_tracked == set_count(m.track_void, key)
    IN  [m EXCEPT !.track_void = set_erase(@, key),
                  !.track_cluster = IF was_tracked = 1 /\ m.tracking_on
                                    THEN set_insert(@, key) ELSE @]

\* (variant: the new key is inserted whether or not the old one was found)
update_reinserting(m, t3, value) ==
    LET idx == T3_to_idx(m.d, t3)
        old == <<m.weights[idx], idx>>
        new == <<m.weights[idx] + value, idx>>
    IN  IF m.mat[idx] # 0
        THEN [m EXCEPT !.weights[idx] = @ + value,
                       !.track_cluster = IF m.tracking_on
                                         THEN set_insert(set_erase(@, old), new)
                                         ELSE set_erase(@, old)]
        ELSE [m EXCEPT !.weights[idx] = @ + value,
                       !.track_void = set_insert(set_erase(@, old), new)]

update(m, t3, value) ==
    LET idx == T3_to_idx(m.d, t3)
        old == <<m.weights[idx], idx>>
        new == <<m.weights[idx] + value, idx>>
    IN  IF m.mat[idx] # 0
        THEN LET was_tracked == set_count(m.track_cluster, old)
             IN  [m EXCEPT !.weights[idx] = @ + value,
                           !.track_cluster =
                               IF was_tracked = 1 /\ m.tracking_on
                               THEN set_insert(set_erase(@, old), new)
                               ELSE set_erase(@, old)]
        ELSE LET was_tracked == set_count(m.track_void, old)
             IN  [m EXCEPT !.weights[idx] = @ + value,
                           !.track_void =
                               IF was_tracked = 1
                               THEN set_insert(set_erase(@, old), new)
                               ELSE set_erase(@, old)]

filterCenter == <<FILTER_SIZE \div 2, FILTER_SIZE \div 2, FILTER_SIZE \div 2>>

\* The loop nest shared by conv_at and deconv_at, one operator per loop, each
\* from its current iteration on; sgn is +1 for conv_at and -1 for deconv_at.
\* Every iteration binds the matrix it starts from as a value (m) first.
RECURSIVE loop_g0(_, _, _, _, _, _)
loop_g0(mat3d, r, sgn, g2, g1, g0) ==
    IF g0 = FILTER_SIZE THEN mat3d
    ELSE LET g == <<g0, g1, g2>>
         IN  CHOOSE after \in
                 {loop_g0(update(m, T3Minus(T3Plus(r, g), filterCenter), sgn * filter_get(g)),
                          r, sgn, g2, g1, g0 + 1) : m \in {mat3d}} : TRUE

RECURSIVE loop_g1(_, _, _, _, _)
loop_g1(mat3d, r, sgn, g2, g1) ==
    IF g1 = FILTER_SIZE THEN mat3d
    ELSE CHOOSE after \in
             {loop_g1(loop_g0(m, r, sgn, g2, g1, 0), r, sgn, g2, g1 + 1) : m \in {mat3d}} : TRUE

RECURSIVE loop_g2(_, _, _, _)
loop_g2(mat3d, r, sgn, g2) ==
    IF g2 = FILTER_SIZE THEN mat3d
    ELSE CHOOSE after \in
             {loop_g2(loop_g1(m, r, sgn, g2, 0), r, sgn, g2 + 1) : m \in {mat3d}} : TRUE

conv_at(m, r) == loop_g2(m, r, 1, 0)

\* (variant: the kernel is added again instead of subtracted)
deconv_at_added(m, r) == loop_g2(m, r, 1, 0)

deconv_at(m, r) == loop_g2(m, r, -1, 0)

\* (variant: no test of the content before writing)
set_pixel_unchecked(m, t3, value) ==
    conv_at(add_to_cluster([m EXCEPT !.mat[T3_to_idx(m.d, t3)] = value], t3), t3)

set_pixel(m, t3, value) ==
    IF m.mat[T3_to_idx(m.d, t3)] > 0
    THEN [m EXCEPT !.exc = "already set"]
    ELSE conv_at(add_to_cluster([m EXCEPT !.mat[T3_to_idx(m.d, t3)] = value], t3), t3)

\* (variant: the voxel is not handed to the void set)
reset_pixel_untracked(m, t3) ==
    deconv_at([m EXCEPT !.mat[T3_to_idx(m.d, t3)] = 0], t3)

reset_pixel(m, t3) ==
    deconv_at(add_to_void([m EXCEPT !.mat[T3_to_idx(m.d, t3)] = 0], t3), t3)

\* (variant: only the void set is erased from)
remove_tracking_void_only(m, t3) ==
    LET idx == T3_to_idx(m.d, t3)
        key == <<m.weights[idx], idx>>
    IN  [m EXCEPT !.track_void = set_erase(@, key)]

remove_tracking(m, t3) ==
    LET idx == T3_to_idx(m.d, t3)
        key == <<m.weights[idx], idx>>
    IN  [m EXCEPT !.track_void = set_erase(@, key),
                  !.track_cluster = set_erase(@, key)]

cluster_tracking_off(m) ==
    [m EXCEPT !.tracking_on = FALSE, !.track_cluster = <<>>]

\* cbegin() / crbegin() of an empty set is end(): dereferencing it is undefined.
\* The build then yields some coordinate (ub) or the process dies (NoCoord).
NoCoord == <<>>

\* (variant: any voxel of lowest energy, ties left open)
max_void_any_lowest(m) ==
    IF m.track_void # <<>>
    THEN {[ret |-> idx_to_T3(m.d, m.track_void[k][2]), ub |-> FALSE] :
              k \in {j \in 1..Len(m.track_void) : m.track_void[j][1] = set_cbegin(m.track_void)[1]}}
    ELSE {[ret |-> c, ub |-> TRUE] : c \in Coords(m.d) \cup {NoCoord}}

max_void(m) ==
    IF m.track_void # <<>>
    THEN {[ret |-> idx_to_T3(m.d, set_cbegin(m.track_void)[2]), ub |-> FALSE]}
    ELSE {[ret |-> c, ub |-> TRUE] : c \in Coords(m.d) \cup {NoCoord}}

max_cluster(m) ==
    IF m.track_cluster # <<>>
    THEN {[ret |-> idx_to_T3(m.d, set_crbegin(m.track_cluster)[2]), ub |-> FALSE]}
    ELSE {[ret |-> c, ub |-> TRUE] : c \in Coords(m.d) \cup {NoCoord}}

\* void_initialization from its k-th voxel on (i0 runs fastest: flat order)
RECURSIVE void_initialization_from(_, _)
void_initialization_from(m, k) ==
    IF k = size(m.d) THEN m
    ELSE void_initialization_from(add_to_void(m, idx_to_T3(m.d, k)), k + 1)

\* the constructor: small_randomization() wrote j, then void_initialization()
Construct(dm, j) ==
    void_initialization_from(
        [d |-> dm, mat |-> [i \in 0..(size(dm) - 1) |-> 0], weights |-> j,
         track_void |-> <<>>, track_cluster |-> <<>>,
         tracking_on |-> TRUE, exc |-> "none"], 0)

----------------------------------------------------------------------------
(* Construction: main() builds mat3d; the caller fixes the count *)

Lattices ==
    {dm \in (1..MaxDim) \X (1..MaxDim) \X (1..MaxDim) : size(dm) >= 2 /\ size(dm) <= MaxVoxels}

\* uniform_real_distribution(0, EPS): one of the levels 0..JitterMax per voxel
Jitters(dm) == [0..(size(dm) - 1) -> 0..JitterMax]

\* the sentinel 1.0f in units of 1/size
Sentinel(dm) == size(dm)

NoOp == [op |-> "none", t3 |-> NoCoord, value |-> 0, exc |-> "none", ub |-> FALSE]

Constructed(dm, j) ==
    LET m == Construct(dm, j)
    IN  /\ dims = dm
        /\ jitter = j
        /\ _mat3D = m.mat
        /\ weights = m.weights
        /\ _track_void = m.track_void
        /\ _track_cluster = m.track_cluster
        /\ _cluster_tracking_is_on = m.tracking_on
        /\ t_max = NoCoord
        /\ t_min = NoCoord
        /\ last = NoOp
        /\ iterations = 0
        /\ calls = 0
        /\ before = m.weights

Init ==
    \E dm \in Lattices : \E j \in Jitters(dm) : \E c \in 1..(size(dm) - 1) :
        /\ Constructed(dm, j)
        /\ INITIAL_COUNT = c
        /\ count = c
        /\ pc = "initial_bitmap"

\* the engine's state after an operation that returned m
Becomes(m) ==
    /\ _mat3D' = m.mat
    /\ weights' = m.weights
    /\ _track_void' = m.track_void
    /\ _track_cluster' = m.track_cluster
    /\ _cluster_tracking_is_on' = m.tracking_on

Op(name, t3, value, m, ub) == [op |-> name, t3 |-> t3, value |-> value, exc |-> m.exc, ub |-> ub]

\* an exception nobody catches, or a dereference that kills the process
AfterCall(m, next) == IF m.exc = "none" THEN next ELSE "aborted"

----------------------------------------------------------------------------
(* main(): phase_1 and phase_2_and_3, one engine operation per step *)

\* initial_bitmap: a draw r with get(r) == 0 (any other draw changes nothing)
initial_bitmap ==
    /\ pc = "initial_bitmap"
    /\ count > 0
    /\ \E r \in Coords(dims) :
        /\ _mat3D[T3_to_idx(dims, r)] = 0
        /\ \E m \in {set_pixel(Mat, r, Sentinel(dims))} :
               /\ Becomes(m)
               /\ last' = Op("set_pixel", r, Sentinel(dims), m, FALSE)
               /\ count' = count - 1
               /\ pc' = AfterCall(m, IF count - 1 > 0 THEN "initial_bitmap" ELSE "reorder_reset")
    /\ UNCHANGED <<dims, before, jitter, INITIAL_COUNT, t_max, t_min, iterations, calls>>

\* reorder_bitmap: t_max = max_cluster(); reset_pixel(t_max)
reorder_bitmap_reset ==
    /\ pc = "reorder_reset"
    /\ \E o \in max_cluster(Mat) :
        IF o.ret = NoCoord
        THEN /\ pc' = "aborted"
             /\ last' = [NoOp EXCEPT !.op = "max_cluster", !.ub = TRUE]
             /\ UNCHANGED <<_mat3D, weights, _track_void, _track_cluster,
                            _cluster_tracking_is_on, t_max>>
        ELSE \E m \in {reset_pixel(Mat, o.ret)} :
                 /\ Becomes(m)
                 /\ t_max' = o.ret
                 /\ last' = Op("reset_pixel", o.ret, 0, m, o.ub)
                 /\ pc' = "reorder_set"
    /\ UNCHANGED <<dims, before, jitter, INITIAL_COUNT, count, t_min, iterations, calls>>

\* reorder_bitmap: t_min = max_void(); set_pixel(t_min, 1); if (t_min == t_max) break,
\* and phase_1 then passes its own count to rank_initial_bitmap
reorder_bitmap_set ==
    /\ pc = "reorder_set"
    /\ \E o \in max_void(Mat) :
        IF o.ret = NoCoord
        THEN /\ pc' = "aborted"
             /\ last' = [NoOp EXCEPT !.op = "max_void", !.ub = TRUE]
             /\ UNCHANGED <<_mat3D, weights, _track_void, _track_cluster,
                            _cluster_tracking_is_on, t_min>>
        ELSE \E m \in {set_pixel(Mat, o.ret, Sentinel(dims))} :
                 /\ Becomes(m)
                 /\ t_min' = o.ret
                 /\ last' = Op("set_pixel", o.ret, Sentinel(dims), m, o.ub)
                 /\ pc' = AfterCall(m, IF o.ret = t_max
                                       THEN (IF INITIAL_COUNT > 0 THEN "rank_reset" ELSE "tracking_off")
                                       ELSE "reorder_reset")
    /\ count' = IF pc' \in {"rank_reset", "tracking_off"} THEN INITIAL_COUNT ELSE count
    /\ iterations' = IF pc' = "aborted" THEN iterations ELSE iterations + 1
    /\ UNCHANGED <<dims, before, jitter, INITIAL_COUNT, t_max, calls>>

\* rank_initial_bitmap: --count; t_max = max_cluster(); reset_pixel(t_max)
rank_initial_bitmap_reset ==
    /\ pc = "rank_reset"
    /\ \E o \in max_cluster(Mat) :
        IF o.ret = NoCoord
        THEN /\ pc' = "aborted"
             /\ last' = [NoOp EXCEPT !.op = "max_cluster", !.ub = TRUE]
             /\ UNCHANGED <<_mat3D, weights, _track_void, _track_cluster,
                            _cluster_tracking_is_on, t_max>>
        ELSE \E m \in {reset_pixel(Mat, o.ret)} :
                 /\ Becomes(m)
                 /\ t_max' = o.ret
                 /\ last' = Op("reset_pixel", o.ret, 0, m, o.ub)
                 /\ pc' = "rank_set"
    /\ count' = count - 1
    /\ UNCHANGED <<dims, before, jitter, INITIAL_COUNT, t_min, iterations, calls>>

\* rank_initial_bitmap: set_pixel(t_max, (float)count / size())
rank_initial_bitmap_set ==
    /\ pc = "rank_set"
    /\ \E m \in {set_pixel(Mat, t_max, count)} :
           /\ Becomes(m)
           /\ last' = Op("set_pixel", t_max, count, m, FALSE)
           /\ pc' = AfterCall(m, "rank_remove")
    /\ UNCHANGED <<dims, before, jitter, INITIAL_COUNT, count, t_max, t_min, iterations, calls>>

\* rank_initial_bitmap: remove_tracking(t_max), then the loop test
rank_initial_bitmap_remove ==
    /\ pc = "rank_remove"
    /\ \E m \in {remove_tracking(Mat, t_max)} :
           /\ Becomes(m)
           /\ last' = Op("remove_tracking", t_max, 0, m, FALSE)
    /\ pc' = IF count > 0 THEN "rank_reset" ELSE "tracking_off"
    /\ UNCHANGED <<dims, before, jitter, INITIAL_COUNT, count, t_max, t_min, iterations, calls>>

\* phase_2_and_3: cluster_tracking_off(), count is INITIAL_COUNT again
phase_2_and_3_off ==
    /\ pc = "tracking_off"
    /\ \E m \in {cluster_tracking_off(Mat)} :
           /\ Becomes(m)
           /\ last' = Op("cluster_tracking_off", NoCoord, 0, m, FALSE)
    /\ count' = INITIAL_COUNT
    /\ pc' = IF INITIAL_COUNT < size(dims) THEN "dense" ELSE "done"
    /\ UNCHANGED <<dims, before, jitter, INITIAL_COUNT, t_max, t_min, iterations, calls>>

\* phase_2_and_3: t_min = max_void(); set_pixel(t_min, (float)count / size()); ++count
phase_2_and_3_set ==
    /\ pc = "dense"
    /\ \E o \in max_void(Mat) :
        IF o.ret = NoCoord
        THEN /\ pc' = "aborted"
             /\ last' = [NoOp EXCEPT !.op = "max_void", !.ub = TRUE]
             /\ UNCHANGED <<_mat3D, weights, _track_void, _track_cluster,
                            _cluster_tracking_is_on, t_min, count>>
        ELSE \E m \in {set_pixel(Mat, o.ret, count)} :
                 /\ Becomes(m)
                 /\ t_min' = o.ret
                 /\ last' = Op("set_pixel", o.ret, count, m, o.ub)
                 /\ count' = IF m.exc = "none" THEN count + 1 ELSE count
                 /\ pc' = AfterCall(m, IF count + 1 < size(dims) THEN "dense" ELSE "done")
    /\ UNCHANGED <<dims, before, jitter, INITIAL_COUNT, t_max, iterations, calls>>

Next ==
    \/ initial_bitmap
    \/ reorder_bitmap_reset
    \/ reorder_bitmap_set
    \/ rank_initial_bitmap_reset
    \/ rank_initial_bitmap_set
    \/ rank_initial_bitmap_remove
    \/ phase_2_and_3_off
    \/ phase_2_and_3_set

Spec == Init /\ [][Next]_vars

\* main() with any positive count: nothing between the constant INITIAL_COUNT
\* and phase_1 compares it with size(), so counts of size() and more run too
InitAnyCount ==
    \E dm \in Lattices : \E j \in Jitters(dm) : \E c \in 1..(size(dm) + MaxExcess) :
        /\ Constructed(dm, j)
        /\ INITIAL_COUNT = c
        /\ count = c
        /\ pc = "initial_bitmap"

SpecAnyCount == InitAnyCount /\ [][Next]_vars

\* ENABLED <<Next>>_vars, read off the guards of the actions: the draws of
\* initial_bitmap need a voxel that is still off, every other position of
\* main() before its end has a step, and every step changes pc, count or last
NextEnabled ==
    \/ pc = "initial_bitmap" /\ count > 0 /\ \E i \in DOMAIN _mat3D : _mat3D[i] = 0
    \/ pc \in {"reorder_reset", "reorder_set", "rank_reset", "rank_set",
               "rank_remove", "tracking_off", "dense"}

\* The run is sequential and never suspended: a step that can be taken is
\* taken.  This is WF_vars(Next) with its ENABLED written as NextEnabled.
Fairness == []<>(~NextEnabled) \/ []<><<Next>>_vars

FairSpec == Spec /\ Fairness

----------------------------------------------------------------------------
(* The engine under a free caller: any public operation on any voxel *)

\* content values a caller passes: the rank 0 and the sentinel 1.0f
Values(dm) == {0, Sentinel(dm)}

\* one lattice of every shape, longest axis first
EngineLattices == {dm \in Lattices : dm[1] >= dm[2] /\ dm[2] >= dm[3]}

InitEngine ==
    \E dm \in EngineLattices : \E j \in Jitters(dm) :
        /\ Constructed(dm, j)
        /\ INITIAL_COUNT = 0
        /\ count = 0
        /\ pc = "caller"

call_set_pixel ==
    /\ pc = "caller"
    /\ calls < MaxCalls
    /\ \E r \in Coords(dims) : \E v \in Values(dims) :
        \E m \in {set_pixel(Mat, r, v)} :
            /\ Becomes(m)
            /\ last' = Op("set_pixel", r, v, m, FALSE)
            /\ pc' = AfterCall(m, "caller")
    /\ calls' = calls + 1
    /\ UNCHANGED <<dims, before, jitter, INITIAL_COUNT, count, t_max, t_min, iterations>>

call_reset_pixel ==
    /\ pc = "caller"
    /\ calls < MaxCalls
    /\ \E r \in Coords(dims) :
        \E m \in {reset_pixel(Mat, r)} :
            /\ Becomes(m)
            /\ last' = Op("reset_pixel", r, 0, m, FALSE)
    /\ calls' = calls + 1
    /\ UNCHANGED <<dims, before, jitter, INITIAL_COUNT, pc, count, t_max, t_min, iterations>>

call_remove_tracking ==
    /\ pc = "caller"
    /\ calls < MaxCalls
    /\ \E r \in Coords(dims) :
        \E m \in {remove_tracking(Mat, r)} :
            /\ Becomes(m)
            /\ last' = Op("remove_tracking", r, 0, m, FALSE)
    /\ calls' = calls + 1
    /\ UNCHANGED <<dims, before, jitter, INITIAL_COUNT, pc, count, t_max, t_min, iterations>>

call_cluster_tracking_off ==
    /\ pc = "caller"
    /\ calls < MaxCalls
    /\ \E m \in {cluster_tracking_off(Mat)} :
        /\ Becomes(m)
        /\ last' = Op("cluster_tracking_off", NoCoord, 0, m, FALSE)
    /\ calls' = calls + 1
    /\ UNCHANGED <<dims, before, jitter, INITIAL_COUNT, pc, count, t_max, t_min, iterations>>

\* the const queries: the engine is unchanged, last.t3 is what was returned
call_max_void ==
    /\ pc = "caller"
    /\ calls < MaxCalls
    /\ \E o \in max_void(Mat) :
        /\ last' = [op |-> "max_void", t3 |-> o.ret, value |-> 0,
                    exc |-> "none", ub |-> o.ub]
        /\ pc' = IF o.ret = NoCoord THEN "aborted" ELSE "caller"
    /\ calls' = calls + 1
    /\ UNCHANGED <<dims, before, _mat3D, weights, _track_void, _track_cluster,
                   _cluster_tracking_is_on, jitter, INITIAL_COUNT, count, t_max, t_min, iterations>>

call_max_cluster ==
    /\ pc = "caller"
    /\ calls < MaxCalls
    /\ \E o \in max_cluster(Mat) :
        /\ last' = [op |-> "max_cluster", t3 |-> o.ret, value |-> 0,
                    exc |-> "none", ub |-> o.ub]
        /\ pc' = IF o.ret = NoCoord THEN "aborted" ELSE "caller"
    /\ calls' = calls + 1
    /\ UNCHANGED <<dims, before, _mat3D, weights, _track_void, _track_cluster,
                   _cluster_tracking_is_on, jitter, INITIAL_COUNT, count, t_max, t_min, iterations>>

NextEngine ==
    \/ call_set_pixel
    \/ call_reset_pixel
    \/ call_remove_tracking
    \/ call_cluster_tracking_off
    \/ call_max_void
    \/ call_max_cluster

SpecEngine == InitEngine /\ [][NextEngine]_vars

----------------------------------------------------------------------------
(* A caller that toggles: set_pixel on an off voxel, then either another one
   or reset_pixel of the voxel it has just set *)

\* values > 0 a caller writes: the smallest rank 1/size and the sentinel 1.0f
PositiveValues(dm) == {1, Sentinel(dm)}

InitToggle ==
    \E dm \in Lattices : \E j \in Jitters(dm) :
        /\ Constructed(dm, j)
        /\ INITIAL_COUNT = 0
        /\ count = 0
        /\ pc = "toggle"

toggle_set_pixel ==
    /\ pc = "toggle"
    /\ calls < MaxCalls
    /\ \E r \in Coords(dims) : \E v \in PositiveValues(dims) :
        /\ _mat3D[T3_to_idx(dims, r)] = 0
        /\ \E m \in {set_pixel(Mat, r, v)} :
               /\ Becomes(m)
               /\ last' = Op("set_pixel", r, v, m, FALSE)
    /\ before' = weights
    /\ calls' = calls + 1
    /\ UNCHANGED <<dims, jitter, INITIAL_COUNT, pc, count, t_max, t_min, iterations>>

toggle_reset_pixel ==
    /\ pc = "toggle"
    /\ calls < MaxCalls
    /\ last.op = "set_pixel"
    /\ \E m \in {reset_pixel(Mat, last.t3)} :
           /\ Becomes(m)
           /\ last' = Op("reset_pixel", last.t3, 0, m, FALSE)
    /\ calls' = calls + 1
    /\ UNCHANGED <<dims, before, jitter, INITIAL_COUNT, pc, count, t_max, t_min, iterations>>

NextToggle ==
    \/ toggle_set_pixel
    \/ toggle_reset_pixel

SpecToggle == InitToggle /\ [][NextToggle]_vars

----------------------------------------------------------------------------
(* A caller that toggles the voxel at (0,0,0) of a constructed matrix, on
   lattices of every shape up to MaxDim along each axis *)

WrapLattices == (1..MaxDim) \X (1..MaxDim) \X (1..MaxDim)

\* jitter fields of small_randomization: level (i * s) mod (JitterMax + 1) at voxel i
WrapJitters(dm) ==
    {[i \in 0..(size(dm) - 1) |-> (i * s) % (JitterMax + 1)] : s \in 0..JitterMax}

Origin == <<0, 0, 0>>

InitWrap ==
    \E dm \in WrapLattices : \E j \in WrapJitters(dm) :
        /\ Constructed(dm, j)
        /\ INITIAL_COUNT = 0
        /\ count = 0
        /\ pc = "wrap"

wrap_set_pixel ==
    /\ pc = "wrap"
    /\ _mat3D[T3_to_idx(dims, Origin)] = 0
    /\ \E m \in {set_pixel(Mat, Origin, Sentinel(dims))} :
           /\ Becomes(m)
           /\ last' = Op("set_pixel", Origin, Sentinel(dims), m, FALSE)
    /\ before' = weights
    /\ UNCHANGED <<dims, jitter, INITIAL_COUNT, pc, count, t_max, t_min, iterations, calls>>

wrap_reset_pixel ==
    /\ pc = "wrap"
    /\ _mat3D[T3_to_idx(dims, Origin)] > 0
    /\ \E m \in {reset_pixel(Mat, Origin)} :
           /\ Becomes(m)
           /\ last' = Op("reset_pixel", Origin, 0, m, FALSE)
    /\ before' = weights
    /\ UNCHANGED <<dims, jitter, INITIAL_COUNT, pc, count, t_max, t_min, iterations, calls>>

NextWrap ==
    \/ wrap_set_pixel
    \/ wrap_reset_pixel

SpecWrap == InitWrap /\ [][NextWrap]_vars

----------------------------------------------------------------------------
(* Matrix3D addressing applied to any coordinate and any flat index *)

\* int triples around the lattice: negative, inside, and past the last voxel
IndexCoords == (-MaxCoord..MaxCoord) \X (-MaxCoord..MaxCoord) \X (-MaxCoord..MaxCoord)

InitIndex ==
    \E dm \in WrapLattices :
        /\ Constructed(dm, [i \in 0..(size(dm) - 1) |-> 0])
        /\ INITIAL_COUNT = 0
        /\ count = 0
        /\ pc = "index"

\* last.value is what T3_to_idx returned for last.t3
call_T3_to_idx ==
    /\ pc = "index"
    /\ \E t3 \in IndexCoords :
           last' = [op |-> "T3_to_idx", t3 |-> t3, value |-> T3_to_idx(dims, t3),
                    exc |-> "none", ub |-> FALSE]
    /\ pc' = "indexed"
    /\ UNCHANGED <<dims, before, _mat3D, weights, _track_void, _track_cluster,
                   _cluster_tracking_is_on, jitter, INITIAL_COUNT, count, t_max, t_min,
                   iterations, calls>>

\* last.t3 is what idx_to_T3 returned for last.value
call_idx_to_T3 ==
    /\ pc = "index"
    /\ \E idx \in 0..(size(dims) - 1) :
           last' = [op |-> "idx_to_T3", t3 |-> idx_to_T3(dims, idx), value |-> idx,
                    exc |-> "none", ub |-> FALSE]
    /\ pc' = "indexed"
    /\ UNCHANGED <<dims, before, _mat3D, weights, _track_void, _track_cluster,
                   _cluster_tracking_is_on, jitter, INITIAL_COUNT, count, t_max, t_min,
                   iterations, calls>>

NextIndex ==
    \/ call_T3_to_idx
    \/ call_idx_to_T3

SpecIndex == InitIndex /\ [][NextIndex]_vars

----------------------------------------------------------------------------
(* Vocabulary of the properties *)

Voxels == 0..(size(dims) - 1)

\* the flat indices that have an entry in a tracking set
Members(s) == {s[k][2] : k \in 1..Len(s)}

InVoid(i) == i \in Members(_track_void)

InCluster(i) == i \in Members(_track_cluster)

\* lexicographic order on (energy, flat index)
LexLeq(p, q) == p[1] < q[1] \/ (p[1] = q[1] /\ p[2] <= q[2])

\* the weight the kernel centred at voxel w lays on voxel u, cells k.. of the kernel
RECURSIVE FootprintFrom(_, _, _)
FootprintFrom(w, u, k) ==
    IF k = size(filterDims) THEN 0
    ELSE LET g == idx_to_T3(filterDims, k)
             hit == T3_to_idx(dims, T3Minus(T3Plus(idx_to_T3(dims, w), g), filterCenter)) = u
         IN  (IF hit THEN filter[k] ELSE 0) + FootprintFrom(w, u, k + 1)

RECURSIVE SumOver(_, _, _)
SumOver(ws, u, acc) ==
    IF ws = {} THEN acc
    ELSE LET w == CHOOSE x \in ws : TRUE
         IN  SumOver(ws \ {w}, u, acc + FootprintFrom(w, u, 0))

----------------------------------------------------------------------------
(* Properties *)

\* C1: when the run is DONE, content holds every rank 0/n .. (n-1)/n exactly
\* once: no two voxels share a rank and no rank is missing.
C1_RanksAreBijection ==
    pc = "done" =>
        \A k \in 0..(size(dims) - 1) : Cardinality({i \in Voxels : _mat3D[i] = k}) = 1

C1_Witness ==
    /\ pc = "done"
    /\ size(dims) = MaxVoxels
    /\ INITIAL_COUNT >= 2
    /\ iterations >= 2

\* C2: between engine operations of a run, while cluster tracking is enabled,
\* every voxel has content 0 if and only if it has an entry in the void set.
C2_OffIffInVoid ==
    _cluster_tracking_is_on => \A i \in Voxels : (_mat3D[i] = 0) <=> InVoid(i)

\* C3: after every engine operation of a run, every entry (e, i) of the void
\* set and of the cluster set has e equal to the current energy of voxel i.
C3_NoStaleKey ==
    /\ \A k \in 1..Len(_track_void) : _track_void[k][1] = weights[_track_void[k][2]]
    /\ \A k \in 1..Len(_track_cluster) : _track_cluster[k][1] = weights[_track_cluster[k][2]]

\* C4: after every set_pixel or reset_pixel of a run, the energy of every voxel
\* is its jitter plus the kernel weights laid on it by the voxels with
\* content > 0; voxels with content 0 contribute nothing.
C4_EnergyIsSumOverOn ==
    (last.op \in {"set_pixel", "reset_pixel"} /\ last.exc = "none") =>
        \A u \in Voxels :
            weights[u] = SumOver({w \in Voxels : _mat3D[w] > 0}, u, jitter[u])

\* C5: reorder_bitmap terminates: once entered, its loop is left, and it is
\* left only at the end of an iteration whose t_min equals its t_max.
C5_BalancingTerminates ==
    /\ (pc = "reorder_reset") ~> (pc = "rank_reset")
    /\ [][(pc \in {"reorder_reset", "reorder_set"} /\ pc' \notin {"reorder_reset", "reorder_set"})
            => (pc = "reorder_set" /\ pc' = "rank_reset" /\ t_min' = t_max')]_vars

C5_Witness ==
    /\ pc = "rank_reset"
    /\ last.op = "set_pixel"
    /\ count = INITIAL_COUNT
    /\ t_min = t_max
    /\ iterations >= 3

\* C6: on a non-empty void set max_void returns the voxel of the entry that is
\* lexicographically smallest by (energy, flat index); on a non-empty cluster
\* set max_cluster returns the voxel of the lexicographically largest entry.
C6_ExtremeByEnergyThenIndex ==
    /\ (last.op = "max_void" /\ _track_void # <<>>) =>
          \E k \in 1..Len(_track_void) :
              /\ last.t3 = idx_to_T3(dims, _track_void[k][2])
              /\ \A j \in 1..Len(_track_void) : LexLeq(_track_void[k], _track_void[j])
    /\ (last.op = "max_cluster" /\ _track_cluster # <<>>) =>
          \E k \in 1..Len(_track_cluster) :
              /\ last.t3 = idx_to_T3(dims, _track_cluster[k][2])
              /\ \A j \in 1..Len(_track_cluster) : LexLeq(_track_cluster[j], _track_cluster[k])

\* a query answered from a cluster set in which two voxels tie on energy
C6_Witness ==
    /\ last.op = "max_cluster"
    /\ \E j, k \in 1..Len(_track_cluster) :
          /\ j < k
          /\ _track_cluster[j][1] = _track_cluster[k][1]
          /\ last.t3 = idx_to_T3(dims, _track_cluster[k][2])

\* C7: set_pixel on a voxel with content > 0 throws "already set" and leaves
\* content, energies and both sets unchanged; on a voxel with content 0 it
\* does not throw.
C7_AlreadySet ==
    [][(calls' = calls + 1 /\ last'.op = "set_pixel") =>
          IF _mat3D[T3_to_idx(dims, last'.t3)] > 0
          THEN /\ last'.exc = "already set"
               /\ UNCHANGED <<_mat3D, weights, _track_void, _track_cluster>>
          ELSE last'.exc = "none"]_vars

C7_Witness ==
    /\ last.op = "set_pixel"
    /\ last.exc = "already set"
    /\ _mat3D[T3_to_idx(dims, last.t3)] > 0

\* C8: max_void on an empty void set and max_cluster on an empty cluster set
\* fail with an EmptySet error and return no coordinate.
C8_EmptySetError ==
    /\ (last.op = "max_void" /\ _track_void = <<>>) =>
          (last.exc = "EmptySet" /\ last.t3 = NoCoord)
    /\ (last.op = "max_cluster" /\ _track_cluster = <<>>) =>
          (last.exc = "EmptySet" /\ last.t3 = NoCoord)

\* C9: immediately after remove_tracking(t3) the voxel at t3 has no entry in
\* the void set and none in the cluster set, for every call made by
\* rank_initial_bitmap, the one for the voxel of rank 0 included.
C9_EvictedFromBoth ==
    last.op = "remove_tracking" =>
        LET i == T3_to_idx(dims, last.t3)
        IN  ~InVoid(i) /\ ~InCluster(i)

\* C10: once cluster_tracking_off has run the cluster set is empty after every
\* later set_pixel, reset_pixel and remove_tracking, and a set_pixel that
\* succeeds then leaves its voxel in neither set.
C10_ClusterStaysEmpty ==
    ~_cluster_tracking_is_on =>
        /\ _track_cluster = <<>>
        /\ (last.op = "set_pixel" /\ last.exc = "none") =>
              LET i == T3_to_idx(dims, last.t3)
              IN  ~InVoid(i) /\ ~InCluster(i)

\* a set_pixel after the switch-off whose footprint updates another on-voxel
C10_Witness ==
    /\ ~_cluster_tracking_is_on
    /\ last.op = "set_pixel"
    /\ last.exc = "none"
    /\ last.value > 0
    /\ \E w \in Voxels : w # T3_to_idx(dims, last.t3) /\ _mat3D[w] > 0

\* C11: set_pixel(c, v) on an off voxel c with v > 0, immediately followed by
\* reset_pixel(c), leaves every voxel with the energy it had before the
\* set_pixel, also when the kernel's footprint wraps onto a voxel more than once.
C11_RoundTripRestoresEnergy ==
    (pc = "toggle" /\ last.op = "reset_pixel") =>
        \A u \in Voxels : weights[u] = before[u]

\* a round trip next to another on-voxel, on an axis shorter than the kernel
C11_Witness ==
    /\ pc = "toggle"
    /\ last.op = "reset_pixel"
    /\ \E w \in Voxels : _mat3D[w] > 0
    /\ \E a \in 1..3 : dims[a] > 1 /\ dims[a] < FILTER_SIZE

\* the unit step along axis a (1..3)
Unit(a) == [b \in 1..3 |-> IF b = a THEN 1 ELSE 0]

\* what the last toggle added to the energy of the voxel at t3
EnergyChange(t3) == weights[T3_to_idx(dims, t3)] - before[T3_to_idx(dims, t3)]

KernelFits == \A a \in 1..3 : dims[a] >= FILTER_SIZE

\* C12: toggling the voxel at (0,0,0) changes the energy of the last voxel of
\* each axis, (d0-1,0,0), (0,d1-1,0), (0,0,d2-1), by exactly what it changes the
\* energy of (1,0,0), (0,1,0), (0,0,1): the footprint wraps around the edge.
\* When the kernel fits in the lattice that amount is the kernel weight at
\* offset 1 along the axis (added by set_pixel, subtracted by reset_pixel).
C12_FootprintWraps ==
    (pc = "wrap" /\ last.op \in {"set_pixel", "reset_pixel"}) =>
        \A a \in 1..3 :
            LET far == [b \in 1..3 |-> IF b = a THEN dims[a] - 1 ELSE 0]
                edge == filter_get(T3Plus(filterCenter, Unit(a)))
            IN  /\ EnergyChange(far) = EnergyChange(Unit(a))
                /\ KernelFits =>
                      EnergyChange(far) = IF last.op = "set_pixel" THEN edge ELSE -edge

\* a toggle on a lattice the kernel fits in, with a first axis of 3 or more voxels
C12_Witness ==
    /\ pc = "wrap"
    /\ last.op = "set_pixel"
    /\ KernelFits
    /\ T3_to_idx(dims, <<dims[1] - 1, 0, 0>>) # T3_to_idx(dims, <<1, 0, 0>>)
    /\ EnergyChange(<<dims[1] - 1, 0, 0>>) > 0

\* the voxels still holding the sentinel 1.0f: on, and not ranked yet
Unranked == {i \in Voxels : _mat3D[i] = Sentinel(dims)}

\* C13: rank_initial_bitmap with count c selects, as its k-th largest cluster,
\* a voxel that has been on since reorder_bitmap ended and was not selected
\* before, and gives it the rank (c-k)/n: the ranks decrease by one per
\* selection, and when the loop ends all c such voxels have been selected.
C13_InitialRankingOrder ==
    /\ [][(pc = "rank_reset" /\ pc' # "rank_reset") =>
             /\ pc' = "rank_set"
             /\ t_max' \in Coords(dims)
             /\ T3_to_idx(dims, t_max') \in Unranked]_vars
    /\ [](pc = "rank_remove" =>
             /\ _mat3D[T3_to_idx(dims, t_max)] = count
             /\ count = Cardinality(Unranked))
    /\ []((pc = "rank_reset" /\ last.op = "set_pixel") => Cardinality(Unranked) = INITIAL_COUNT)
    /\ [](pc = "tracking_off" => Unranked = {})

\* the third selection of a ranking of three voxels has been given rank 0
C13_Witness ==
    /\ pc = "rank_remove"
    /\ INITIAL_COUNT >= 3
    /\ count = 0
    /\ iterations >= 2

\* the entries of a tracking set that no other entry precedes (dir = 1) or
\* follows (dir = -1) in the order by energy, then flat index
Extremes(s, dir) ==
    {s[k] : k \in {j \in 1..Len(s) :
                      \A i \in 1..Len(s) : IF dir = 1 THEN LexLeq(s[j], s[i]) ELSE LexLeq(s[i], s[j])}}

\* C14: once the initial sample is drawn the run has no choice left: wherever
\* reorder_bitmap, rank_initial_bitmap or phase_2_and_3 asks for the largest
\* cluster or the largest void, exactly one voxel can be returned, the one of
\* the entry that is extreme by energy and then by flat index; so the sequence
\* of engine operations and the final ranks are fixed by lattice, kernel,
\* count, jitter and sample.
C14_Deterministic ==
    /\ pc \in {"reorder_reset", "rank_reset"} =>
          \E e \in Extremes(_track_cluster, -1) :
              max_cluster(Mat) = {[ret |-> idx_to_T3(dims, e[2]), ub |-> FALSE]}
    /\ pc \in {"reorder_set", "dense"} =>
          \E e \in Extremes(_track_void, 1) :
              max_void(Mat) = {[ret |-> idx_to_T3(dims, e[2]), ub |-> FALSE]}

\* dense ranking about to choose among void entries that tie on energy
C14_Witness ==
    /\ pc = "dense"
    /\ iterations >= 2
    /\ \E j, k \in 1..Len(_track_void) : j < k /\ _track_void[j][1] = _track_void[k][1]

\* C15: with an initial count of size() or more the run is rejected before
\* any voxel is toggled: no engine operation is ever made.
C15_OversizedCountRejected ==
    INITIAL_COUNT >= size(dims) =>
        /\ last.op = "none"
        /\ \A i \in Voxels : _mat3D[i] = 0

\* C16: in a run with 1 <= count < size(), set_pixel is never called on a voxel
\* with content > 0 and max_void / max_cluster never on an empty set: no
\* exception is thrown and nothing undefined is evaluated, every voxel that
\* max_void returns has content 0, and the void set is empty exactly when
\* phase_2_and_3 has finished.
C16_NoMisuse ==
    /\ [](last.exc = "none" /\ ~last.ub /\ pc # "aborted")
    /\ [](pc \in {"reorder_reset", "rank_reset"} => _track_cluster # <<>>)
    /\ [](pc \in {"reorder_set", "dense"} => _track_void # <<>>)
    /\ [](pc = "rank_set" => _mat3D[T3_to_idx(dims, t_max)] = 0)
    /\ [][(pc \in {"reorder_set", "dense"} /\ last'.op = "set_pixel") =>
             /\ t_min' = last'.t3
             /\ _mat3D[T3_to_idx(dims, t_min')] = 0]_vars
    /\ []((_track_void = <<>>) <=> (pc = "done"))

\* a finished run that balanced, ranked two or more voxels and ranked the rest
C16_Witness ==
    /\ pc = "done"
    /\ _track_void = <<>>
    /\ last.op = "set_pixel"
    /\ INITIAL_COUNT >= 2
    /\ INITIAL_COUNT + 2 <= size(dims)
    /\ iterations >= 2

\* the voxels with content > 0
OnVoxels == {i \in Voxels : _mat3D[i] > 0}

\* C17: every iteration of reorder_bitmap turns exactly one voxel off and then
\* exactly one voxel on; when an iteration starts, when it ends and when the
\* loop is left, INITIAL_COUNT voxels have content > 0, the cluster set has
\* INITIAL_COUNT entries and the void set has size() - INITIAL_COUNT.
C17_BalancingKeepsCounts ==
    /\ []((pc = "reorder_reset" \/ (pc = "rank_reset" /\ last.op = "set_pixel")) =>
             /\ Cardinality(OnVoxels) = INITIAL_COUNT
             /\ Len(_track_cluster) = INITIAL_COUNT
             /\ Len(_track_void) = size(dims) - INITIAL_COUNT)
    /\ [][pc = "reorder_reset" =>
             \E i \in OnVoxels :
                 /\ _mat3D'[i] = 0
                 /\ \A u \in Voxels \ {i} : _mat3D'[u] = _mat3D[u]]_vars
    /\ [][pc = "reorder_set" =>
             \E i \in Voxels \ OnVoxels :
                 /\ _mat3D'[i] > 0
                 /\ \A u \in Voxels \ {i} : _mat3D'[u] = _mat3D[u]]_vars

\* the loop is left after three iterations or more that moved voxels
C17_Witness ==
    /\ pc = "rank_reset"
    /\ last.op = "set_pixel"
    /\ iterations >= 3
    /\ INITIAL_COUNT >= 2
    /\ Len(_track_cluster) = INITIAL_COUNT

\* C18: a voxel x with no entry in either tracking set keeps its content and
\* stays without an entry through every set_pixel and reset_pixel on another
\* voxel c; only its energy changes, by the weight c's kernel lays on x
\* (added by set_pixel, subtracted by reset_pixel).
C18_UntrackedStaysUntracked ==
    [][(calls' = calls + 1 /\ last'.op \in {"set_pixel", "reset_pixel"} /\ last'.exc = "none") =>
          LET c == T3_to_idx(dims, last'.t3)
          IN  \A x \in Voxels \ {c} :
                  (~InVoid(x) /\ ~InCluster(x)) =>
                      /\ x \notin Members(_track_void')
                      /\ x \notin Members(_track_cluster')
                      /\ _mat3D'[x] = _mat3D[x]
                      /\ weights'[x] = weights[x] +
                             (IF last'.op = "set_pixel" THEN 1 ELSE -1) * FootprintFrom(c, x, 0)]_vars

\* cluster tracking is on, a voxel was evicted by remove_tracking, and the
\* kernel of a later reset_pixel on another voxel covered it
C18_Witness ==
    /\ pc = "caller"
    /\ _cluster_tracking_is_on
    /\ last.op = "reset_pixel"
    /\ \E x \in Voxels \ {T3_to_idx(dims, last.t3)} :
          /\ ~InVoid(x)
          /\ ~InCluster(x)
          /\ FootprintFrom(T3_to_idx(dims, last.t3), x, 0) > 0
          /\ weights[x] # jitter[x]

\* C19: for dimensions >= 1, T3_to_idx maps every int triple (x, y, z), with
\* negative components and components past the dimension included, to the
\* flat index (x mod d0) + (y mod d1)*d0 + (z mod d2)*d0*d1 with the
\* non-negative mod, which lies in 0..size()-1; and idx_to_T3 returns for every
\* flat index a coordinate of the lattice that T3_to_idx maps back to it.
C19_FlatIndex ==
    /\ last.op = "T3_to_idx" =>
          /\ last.value \in 0..(size(dims) - 1)
          /\ last.value = (last.t3[1] % dims[1]) + (last.t3[2] % dims[2]) * dims[1]
                              + (last.t3[3] % dims[3]) * dims[1] * dims[2]
    /\ last.op = "idx_to_T3" =>
          /\ last.t3 \in Coords(dims)
          /\ T3_to_idx(dims, last.t3) = last.value

\* a triple with a negative component and one past the end of its axis
C19_Witness ==
    /\ last.op = "T3_to_idx"
    /\ last.t3[1] < -dims[1]
    /\ last.t3[2] >= 2 * dims[2]
    /\ dims[1] >= 2
    /\ dims[2] >= 2
    /\ last.value > 0

====
